---- MODULE Spec2Model ----
(***************************************************************************)
(* A model of gstatx's history extraction engine (src/utils/git.ts):       *)
(*   - getCommits: the line-by-line parser of the decorated git log,       *)
(*   - parseMailmap and getContributors: the alias map and the two         *)
(*     contributor aggregation modes,                                      *)
(*   - Client.listContributors and Client.getHistory (src/lib.ts): the     *)
(*     loop over the repositories of a run,                                *)
(*   - the unique-emails output of the contributors command, findConfigFile *)
(*     and ensureRepository.                                                *)
(* Strings that the code only compares are TLA+ strings; a line of text is *)
(* kept as the sequence of fields the code's split() yields, so that the   *)
(* guards of the code (part counts, empty fields, non-numeric counts) are  *)
(* decided here as they are decided there.                                 *)
(***************************************************************************)
EXTENDS Integers, Sequences, FiniteSets, TLC

VARIABLES
    \* ---- getCommits ----
    lines,                \* the non-blank lines of the log output (git.ts:306)
    idx,                  \* position of the for-loop over lines (git.ts:314)
    commits,              \* the result array (git.ts:305)
    heap,                 \* the CommitFile[] arrays allocated so far, by reference
    currentCommit,        \* <<>> for null, <<c>> for the open commit (git.ts:308)
    currentFilesChanged,  \* git.ts:309
    currentInsertions,    \* git.ts:310
    currentDeletions,     \* git.ts:311
    currentFiles,         \* reference (index into heap) of the open array (git.ts:312)
    resolveIdx,           \* position of the loop over commits (git.ts:446)
    parsed,               \* commits as they were when the loop over lines ended
    queryLog,             \* the outcome of the contains query of each commit so far
    pc,                   \* "parse", then "resolve" (the branch pass), then "done"
    \* ---- getContributors ----
    useMailmap,           \* hasMailmap(repoPath) (git.ts:105, 286)
    mailmapReadable,      \* readFile of .mailmap succeeds (git.ts:28)
    mailmapContent,       \* the lines of .mailmap (git.ts:28-29)
    history,              \* author name and email of every commit, newest first
    shortlogOutput,       \* the lines of `git shortlog -sn --all` (git.ts:197)
    emailOutput,          \* author name -> output of the email lookup (git.ts:213)
    emailMapping,         \* the Map returned by parseMailmap (git.ts:119)
    commitLines,          \* the lines looped over (git.ts:134, 204)
    lineIdx,              \* position of the loop over commitLines
    contributorsMap,      \* git.ts:107, in insertion order
    nameCounts,           \* git.ts:131, in insertion order
    contributors,         \* the array returned (git.ts:251-257)
    cpc,                  \* "start", "full", "names", "summary", "sort", "done"
    \* ---- Client.listContributors and Client.getHistory ----
    method,               \* the method called
    paths,                \* getRepoPaths(repoPaths): what each path is (lib.ts:137, 183)
    repoIdx,              \* position of the loop over paths (lib.ts:147, 193)
    results,              \* the array returned (lib.ts:142, 188)
    error,                \* <<>>, or <<e>> for the Error thrown to the caller
    clientPc,             \* "start", "loop", "returned", "thrown"
    \* ---- the unique-emails output of the contributors command ----
    entries,              \* the contributors of all results, in loop order
    entryIdx,             \* position of the two nested loops
    emailMap,             \* the Map of the command, in insertion order
    uniqueContributors,   \* the sorted array that is printed
    dedupPc,              \* "loop", "sort", "done"
    \* ---- findConfigFile ----
    startDepth,           \* number of ancestors of resolve(startPath); the root has 0
    configDirs,           \* the ancestors (by their number of ancestors) that hold
                          \* .gstatxrc.json
    currentPath,          \* the directory looked at, by its number of ancestors
    depth,                \* the loop counter
    found,                \* <<>> for null, <<d>> for the config file of directory d
    configPc,             \* "search", "returned"
    \* ---- ensureRepository ----
    repo,                 \* the RepositoryConfig and what is at its path
    pullIfExists,         \* the second parameter
    commandsRun,          \* the commands run so far, with their outcome
    definition,           \* which declaration of repo.ts is called: 11 or 77
    ensured,              \* the value returned: "path" or "null"
    ensurePc              \* "start", "fetch", "pull", "mkdir", "clone",
                          \* "fetchNew", "returned"

commitVars == <<lines, idx, commits, heap, currentCommit, currentFilesChanged,
                currentInsertions, currentDeletions, currentFiles, resolveIdx,
                parsed, queryLog, pc>>

\* The repository as getContributors sees it: its .mailmap file and what its
\* git commands print.
repoVars == <<useMailmap, mailmapReadable, mailmapContent, history, shortlogOutput,
              emailOutput>>

contribVars == <<repoVars, emailMapping, commitLines, lineIdx, contributorsMap, nameCounts,
                 contributors, cpc>>

clientVars == <<method, paths, repoIdx, results, error, clientPc>>

dedupVars == <<entries, entryIdx, emailMap, uniqueContributors, dedupPc>>

configVars == <<startDepth, configDirs, currentPath, depth, found, configPc>>

ensureVars == <<repo, pullIfExists, definition, commandsRun, ensured, ensurePc>>

cliVars == <<dedupVars, configVars, ensureVars>>

vars == <<commitVars, contribVars, clientVars, cliVars>>

----------------------------------------------------------------------------
(* Bounds of the model. *)

MaxLines == 4
MaxHistory == 3
MaxShortlog == 3
MaxCount == 2
MaxRepos == 3
MaxEntries == 3
MaxNesting == 20

----------------------------------------------------------------------------
(* Strings. *)

\* String.prototype.trim on the field values the model uses: a field of
\* blanks trims to the empty string, any other field is already trimmed.
Trim(s) == IF s = " " THEN "" ELSE s

\* parseInt(s, 10) on the count tokens the model uses: <<n>> for a number,
\* <<>> for NaN (the "-" of a binary file).
ParseInt(s) ==
    CASE s = "0" -> <<0>>
      [] s = "1" -> <<1>>
      [] s = "2" -> <<2>>
      [] s = "3" -> <<3>>
      [] OTHER   -> <<>>

\* `parseInt(x, 10) || 0`: NaN and 0 are falsy.
OrZero(n) == IF n = <<>> THEN 0 ELSE n[1]

\* parts[i] of a JavaScript array, "" standing for undefined (the code
\* only tests these values for truthiness).
Part(parts, i) == IF i <= Len(parts) THEN parts[i] ELSE ""

----------------------------------------------------------------------------
(* The input of getCommits: the lines of `git log --format=%H|%an|%ae|%ad|%s|%D   *)
(* --numstat`. A line that contains "|" is kept as its split("|") parts, any      *)
(* other line as its split(/\s+/) parts.                                          *)

Header(parts) == [kind |-> "header", parts |-> parts]
Numstat(parts) == [kind |-> "numstat", parts |-> parts]

HeaderLines ==
    { Header(<<"h1", "Jane", "jane@x.com", "2024-01-01", "fix bug",
               "HEAD -> main, origin/main, tag: v1.0">>),
      Header(<<"h2", "Joe", "joe@x.com", "2024-01-02", "add",
               "origin/HEAD, fork/dev, HEAD-fix">>),
      \* a commit made with an empty subject
      Header(<<"h3", "Jane", "jane@x.com", "2024-01-03", "", "">>),
      \* a commit whose author email is blank
      Header(<<"h4", "Jane", " ", "2024-01-04", "wip", "">>),
      \* the numstat line of a path that contains "|": "1\t1\ta|b.txt"
      Header(<<"1 1 a", "b.txt">>) }

NumstatLines ==
    { Numstat(<<"3", "1", "file.ts">>),
      \* two counts and no path
      Numstat(<<"2", "0">>),
      \* a binary file
      Numstat(<<"-", "-", "img.png">>) }

LineSet == HeaderLines \cup NumstatLines

SeqsUpTo(S, n) == UNION { [1..k -> S] : k \in 0..n }

----------------------------------------------------------------------------
(* getCommits, git.ts:305-442. *)

\* git.ts:318-324 and 421-427: the open commit can be pushed.
Sealable(cc) ==
    /\ cc # <<>>
    /\ cc[1].hash # ""
    /\ cc[1].author # ""
    /\ cc[1].email # ""
    /\ cc[1].date # ""
    /\ cc[1].message # ""

\* git.ts:325-338 and 428-441: the record pushed; files is the reference of
\* the open array, not a copy of it.
Sealed(cc, nfiles, ins, del, ref) ==
    [hash |-> cc[1].hash, author |-> cc[1].author, email |-> cc[1].email,
     date |-> cc[1].date, message |-> cc[1].message,
     filesChanged |-> nfiles, insertions |-> ins, deletions |-> del,
     files |-> ref, branches |-> cc[1].branches]

\* git.ts:344 and 353: the header opens a new commit.
ValidHeader(parts) ==
    /\ Len(parts) >= 5
    /\ Trim(Part(parts, 1)) # ""
    /\ Trim(Part(parts, 2)) # ""
    /\ Trim(Part(parts, 3)) # ""
    /\ Trim(Part(parts, 4)) # ""

\* includes() and push() on an array of names.
PushNew(names, name) ==
    IF \E i \in DOMAIN names : names[i] = name THEN names ELSE Append(names, name)

\* A ref name is kept as the sequence of the pieces the code tells apart:
\* "origin/main" is <<"origin", "/", "main">>.
\* refs.split(",").map((r) => r.trim()) on the decorations the model uses
\* (git.ts:358).
SplitRefs(refs) ==
    CASE refs = "HEAD -> main, origin/main, tag: v1.0" ->
             << <<"HEAD", " -> ", "main">>, <<"origin", "/", "main">>,
                <<"tag: ", "v1.0">> >>
      [] refs = "origin/HEAD, fork/dev, HEAD-fix" ->
             << <<"origin", "/", "HEAD">>, <<"fork", "/", "dev">>,
                <<"HEAD", "-fix">> >>
      [] OTHER -> <<>>

\* replace(/^(origin|upstream|remote)\//, "") (git.ts:366, 376, 466)
StripRemote(name) ==
    IF Len(name) >= 2 /\ name[1] \in {"origin", "upstream", "remote"} /\ name[2] = "/"
    THEN SubSeq(name, 3, Len(name))
    ELSE name

\* git.ts:359-381: the branch names after one more ref of the decoration.
AddRef(branchNames, ref) ==
    IF Len(ref) >= 2 /\ ref[1] = "HEAD" /\ ref[2] = " -> "
    THEN LET cleanBranch == StripRemote(SubSeq(ref, 3, Len(ref)))
         IN IF cleanBranch # <<>> THEN PushNew(branchNames, cleanBranch)
            ELSE branchNames
    ELSE IF ref # <<>> /\ ref[1] # "tag: " /\ ref[1] # "HEAD"
         THEN LET cleanRef == StripRemote(ref)
              IN IF cleanRef # <<>> THEN PushNew(branchNames, cleanRef)
                 ELSE branchNames
         ELSE branchNames

\* git.ts:356-382
RECURSIVE BranchesOfRefs(_, _, _)
BranchesOfRefs(branchNames, refParts, i) ==
    IF i > Len(refParts) THEN branchNames
    ELSE BranchesOfRefs(AddRef(branchNames, refParts[i]), refParts, i + 1)

\* git.ts:384-391
OpenCommit(parts) ==
    [hash |-> Trim(Part(parts, 1)), author |-> Trim(Part(parts, 2)),
     email |-> Trim(Part(parts, 3)), date |-> Trim(Part(parts, 4)),
     message |-> Trim(Part(parts, 5)),
     branches |-> BranchesOfRefs(<<>>, SplitRefs(Trim(Part(parts, 6))), 1)]

\* git.ts:316-397: a line that contains "|".
ParseHeader ==
    /\ pc = "parse"
    /\ idx <= Len(lines)
    /\ lines[idx].kind = "header"
    /\ commits' = IF Sealable(currentCommit)
                  THEN Append(commits, Sealed(currentCommit, currentFilesChanged,
                                  currentInsertions, currentDeletions, currentFiles))
                  ELSE commits
    /\ IF ValidHeader(lines[idx].parts)
       THEN /\ currentCommit' = <<OpenCommit(lines[idx].parts)>>
            /\ currentFilesChanged' = 0
            /\ currentInsertions' = 0
            /\ currentDeletions' = 0
            /\ heap' = Append(heap, <<>>)
            /\ currentFiles' = Len(heap) + 1
       ELSE UNCHANGED <<currentCommit, currentFilesChanged, currentInsertions,
                        currentDeletions, heap, currentFiles>>
    /\ idx' = idx + 1
    /\ UNCHANGED <<lines, resolveIdx, parsed, queryLog, pc, contribVars, clientVars, cliVars>>

\* git.ts:401 and 406: the numstat line is counted.
CountedNumstat(parts) ==
    /\ Len(parts) >= 2
    /\ Part(parts, 1) # ""
    /\ Part(parts, 2) # ""
    /\ Len(parts) >= 3       \* filename = parts.slice(2).join(" ") is not empty

\* git.ts:398-417: any other line.
ParseNumstat ==
    /\ pc = "parse"
    /\ idx <= Len(lines)
    /\ lines[idx].kind = "numstat"
    /\ LET parts == lines[idx].parts
           insertions == OrZero(ParseInt(Part(parts, 1)))
           deletions == OrZero(ParseInt(Part(parts, 2)))
       IN IF CountedNumstat(parts)
          THEN /\ currentFilesChanged' = currentFilesChanged + 1
               /\ currentInsertions' = currentInsertions + insertions
               /\ currentDeletions' = currentDeletions + deletions
               /\ heap' = [heap EXCEPT ![currentFiles] =
                              Append(@, [path |-> parts[3], insertions |-> insertions,
                                         deletions |-> deletions])]
          ELSE UNCHANGED <<currentFilesChanged, currentInsertions,
                           currentDeletions, heap>>
    /\ idx' = idx + 1
    /\ UNCHANGED <<lines, commits, currentCommit, currentFiles, resolveIdx, parsed,
                   queryLog, pc, contribVars, clientVars, cliVars>>

\* git.ts:420-442: the last commit is saved when the loop is over.
SealLast ==
    /\ pc = "parse"
    /\ idx > Len(lines)
    /\ commits' = IF Sealable(currentCommit)
                  THEN Append(commits, Sealed(currentCommit, currentFilesChanged,
                                  currentInsertions, currentDeletions, currentFiles))
                  ELSE commits
    /\ parsed' = commits'
    /\ pc' = IF commits' = <<>> THEN "done" ELSE "resolve"
    /\ UNCHANGED <<lines, idx, heap, currentCommit, currentFilesChanged,
                   currentInsertions, currentDeletions, currentFiles, resolveIdx,
                   queryLog, contribVars, clientVars, cliVars>>

\* The outputs of `git branch -a --contains <hash>` (git.ts:450-455), each
\* line in pieces as the ref names are.
ContainsOutputs ==
    { << <<"* ", "main">>,
         <<"  ", "remotes/", "origin", "/", "HEAD", " -> ", "origin", "/", "main">>,
         <<"  ", "remotes/", "origin", "/", "main">> >>,
      << <<"* ", "(HEAD detached at ", "h2", ")">>,
         <<"  ", "dev">>,
         <<"  ", "remotes/", "fork", "/", "dev">> >> }

DropFirstIf(name, pieces) ==
    IF name # <<>> /\ name[1] \in pieces THEN Tail(name) ELSE name

\* git.ts:462-466: the name of a line of the output.
CleanBranch(line) ==
    StripRemote(DropFirstIf(DropFirstIf(DropFirstIf(line, {"* "}), {"  "}),
                            {"remotes/"}))

\* git.ts:459-475: the names after one more line of the output.
AddBranch(branchNames, line) ==
    LET branch == CleanBranch(line)
    IN IF branch # <<>> /\ branch[1] # "HEAD" THEN PushNew(branchNames, branch)
       ELSE branchNames

RECURSIVE BranchesOfOutput(_, _, _)
BranchesOfOutput(branchNames, output, i) ==
    IF i > Len(output) THEN branchNames
    ELSE BranchesOfOutput(AddBranch(branchNames, output[i]), output, i + 1)

\* [...new Set([...a, ...b])] (git.ts:478)
RECURSIVE PushAllNew(_, _, _)
PushAllNew(a, b, i) ==
    IF i > Len(b) THEN a ELSE PushAllNew(PushNew(a, b[i]), b, i + 1)

\* MergeBranches keeping the names of the query only.
ReplaceBranches(existing, branchNames) == branchNames

MergeBranches(existing, branchNames) ==
    PushAllNew(PushAllNew(<<>>, existing, 1), branchNames, 1)

\* Resolved forgetting the branches the commit already has.
ResolvedQueryOnly(branches, output) == BranchesOfOutput(<<>>, output, 1)

\* git.ts:457-479: the branches of a commit after a query that returned output.
Resolved(branches, output) ==
    MergeBranches(branches, BranchesOfOutput(<<>>, output, 1))

\* WithBranches putting the commit back without the counters of its files.
WithBranchesOnly(commit, branches) ==
    [commit EXCEPT !.branches = branches, !.filesChanged = 0,
                   !.insertions = 0, !.deletions = 0]

\* git.ts:479: commit.branches = allBranches, an assignment to one field of
\* the commit object.
WithBranches(commit, branches) == [commit EXCEPT !.branches = branches]

\* git.ts:446-479: the contains query of one commit succeeds.
ResolveBranches ==
    /\ pc = "resolve"
    /\ resolveIdx <= Len(commits)
    /\ \E branchOutput \in ContainsOutputs :
           /\ commits' = [commits EXCEPT ![resolveIdx] =
                             WithBranches(@, Resolved(@.branches, branchOutput))]
           /\ queryLog' = Append(queryLog, [ok |-> TRUE, output |-> branchOutput])
    /\ resolveIdx' = resolveIdx + 1
    /\ pc' = IF resolveIdx = Len(commits) THEN "done" ELSE "resolve"
    /\ UNCHANGED <<lines, idx, heap, currentCommit, currentFilesChanged,
                   currentInsertions, currentDeletions, currentFiles, parsed,
                   contribVars, clientVars, cliVars>>

\* git.ts:480-483: what the catch block leaves of the branches of the commit.
AfterFailedQuery(branches) == branches

\* PcAfterQuery giving up the branch pass at the first failed query.
AbortAfterQuery(i, n) == "done"

\* git.ts:446-485: the loop goes on to the next commit after a failed query.
PcAfterQuery(i, n) == IF i = n THEN "done" ELSE "resolve"

\* git.ts:480-483: the contains query of one commit fails.
ResolveFails ==
    /\ pc = "resolve"
    /\ resolveIdx <= Len(commits)
    /\ commits' = [commits EXCEPT ![resolveIdx].branches = AfterFailedQuery(@)]
    /\ queryLog' = Append(queryLog, [ok |-> FALSE, output |-> <<>>])
    /\ resolveIdx' = resolveIdx + 1
    /\ pc' = PcAfterQuery(resolveIdx, Len(commits))
    /\ UNCHANGED <<lines, idx, heap, currentCommit, currentFilesChanged,
                   currentInsertions, currentDeletions, currentFiles, parsed,
                   contribVars, clientVars, cliVars>>

\* getContributors is not running.
ContribIdle ==
    /\ useMailmap = FALSE
    /\ mailmapReadable = FALSE
    /\ mailmapContent = <<>>
    /\ history = <<>>
    /\ shortlogOutput = <<>>
    /\ emailOutput = <<>>
    /\ emailMapping = <<>>
    /\ commitLines = <<>>
    /\ lineIdx = 1
    /\ contributorsMap = <<>>
    /\ nameCounts = <<>>
    /\ contributors = <<>>
    /\ cpc = "idle"

\* The unique-emails output is not being computed.
DedupIdle ==
    /\ entries = <<>>
    /\ entryIdx = 1
    /\ emailMap = <<>>
    /\ uniqueContributors = <<>>
    /\ dedupPc = "idle"

\* findConfigFile is not running.
ConfigIdle ==
    /\ startDepth = 0
    /\ configDirs = {}
    /\ currentPath = 0
    /\ depth = 0
    /\ found = <<>>
    /\ configPc = "idle"

\* ensureRepository is not running.
EnsureIdle ==
    /\ repo = [name |-> FALSE, path |-> "none", url |-> FALSE]
    /\ pullIfExists = FALSE
    /\ definition = 0
    /\ commandsRun = <<>>
    /\ ensured = "none"
    /\ ensurePc = "idle"

CliIdle == DedupIdle /\ ConfigIdle /\ EnsureIdle

\* No method of Client is running.
ClientIdle ==
    /\ method = "none"
    /\ paths = <<>>
    /\ repoIdx = 1
    /\ results = <<>>
    /\ error = <<>>
    /\ clientPc = "idle"

\* git.ts:299-312: the log is read and the loop over its lines begins.
CommitsStart ==
    /\ lines \in SeqsUpTo(LineSet, MaxLines)
    /\ idx = 1
    /\ commits = <<>>
    /\ heap = << <<>> >>
    /\ currentCommit = <<>>
    /\ currentFilesChanged = 0
    /\ currentInsertions = 0
    /\ currentDeletions = 0
    /\ currentFiles = 1
    /\ resolveIdx = 1
    /\ parsed = <<>>
    /\ queryLog = <<>>
    /\ pc = "parse"

InitCommits == ContribIdle /\ ClientIdle /\ CliIdle /\ CommitsStart

NextCommits ==
    ParseHeader \/ ParseNumstat \/ SealLast \/ ResolveBranches \/ ResolveFails

SpecCommits == InitCommits /\ [][NextCommits]_vars

----------------------------------------------------------------------------
(* Emails, names and the JavaScript Map. *)

\* String.prototype.toLowerCase on the emails the model uses.
ToLowerCase(s) ==
    CASE s = "A@x" -> "a@x"
      [] s = "B@x" -> "b@x"
      [] OTHER     -> s

\* Author names, in the alphabetic order of git shortlog.
NameOrder == <<"Alice", "Bob", "Carol">>
Names == { NameOrder[i] : i \in DOMAIN NameOrder }

\* Author emails of commits; "" is a commit made with an empty email.
Emails == {"a@x", "A@x", "b@x", ""}

\* A Map with string keys, kept as the sequence of its values in insertion
\* order; every value carries its key. Map.set on a key that is present
\* replaces the value in place.
MapHas(m, k) == \E i \in DOMAIN m : m[i].key = k
MapGet(m, k) == m[CHOOSE i \in DOMAIN m : m[i].key = k]
MapSet(m, k, v) ==
    IF MapHas(m, k)
    THEN [i \in DOMAIN m |-> IF m[i].key = k THEN v ELSE m[i]]
    ELSE Append(m, v)

----------------------------------------------------------------------------
(* parseMailmap, git.ts:24-61. A line of .mailmap is kept as what the code  *)
(* reads of it: blank, a comment, or the trimmed contents of its <...>      *)
(* tokens in order.                                                         *)

Blank == [kind |-> "blank", emails |-> <<>>]
Comment(emails) == [kind |-> "comment", emails |-> emails]
Rule(emails) == [kind |-> "rule", emails |-> emails]

\* MapAliases keeping the case of the aliased email.
RECURSIVE MapAliasesRaw(_, _, _, _)
MapAliasesRaw(map, emails, i, canonicalEmailLower) ==
    IF i > Len(emails) THEN map
    ELSE MapAliasesRaw(IF emails[i] # ""
                       THEN (emails[i] :> canonicalEmailLower) @@ map
                       ELSE map,
                       emails, i + 1, canonicalEmailLower)

\* git.ts:47-52: the emails after the first are mapped to the first.
RECURSIVE MapAliases(_, _, _, _)
MapAliases(map, emails, i, canonicalEmailLower) ==
    IF i > Len(emails) THEN map
    ELSE MapAliases(IF emails[i] # ""
                    THEN (ToLowerCase(emails[i]) :> canonicalEmailLower) @@ map
                    ELSE map,
                    emails, i + 1, canonicalEmailLower)

\* git.ts:32-54: one line of the file.
MailmapLine(map, line) ==
    IF line.kind # "rule" THEN map
    ELSE IF Len(line.emails) >= 2 /\ line.emails[1] # ""
         THEN MapAliases(map, line.emails, 2, ToLowerCase(line.emails[1]))
         ELSE map

RECURSIVE ParseMailmapFrom(_, _, _)
ParseMailmapFrom(map, content, i) ==
    IF i > Len(content) THEN map
    ELSE ParseMailmapFrom(MailmapLine(map, content[i]), content, i + 1)

\* git.ts:29-55: the map of the lines of the file.
ParseMailmap(content) == ParseMailmapFrom(<<>>, content, 1)

\* ParseMailmapFile going on to the lines of a file that could not be read.
ParseMailmapUnguarded(readable, content) == ParseMailmap(content)

\* git.ts:24-61: parseMailmap. readFile is inside the try block, and the
\* catch block returns the map as it is, empty.
ParseMailmapFile(readable, content) ==
    IF readable THEN ParseMailmap(content) ELSE <<>>

\* emailMapping.get(k), "" standing for undefined.
MappedEmail(map, k) == IF k \in DOMAIN map THEN map[k] ELSE ""

\* git.ts:140-145: the aggregation key of a raw email.
NormalizedEmail(map, email) ==
    LET lower == ToLowerCase(email)
    IN IF MappedEmail(map, lower) # "" THEN MappedEmail(map, lower) ELSE lower

\* The .mailmap files of the model.
MailmapFiles ==
    { <<>>,
      << Rule(<<"c@x", "b@x">>) >>,
      \* the canonical email of the first rule is aliased by the second
      << Rule(<<"b@x", "a@x">>), Rule(<<"c@x", "b@x">>) >>,
      << Comment(<<"b@x", "a@x">>), Blank, Rule(<<"b@x">>) >>,
      << Rule(<<"B@x", "A@x", "c@x">>) >>,
      << Rule(<<"", "a@x">>), Rule(<<"b@x", "">>) >>,
      \* two rules alias the same email
      << Rule(<<"c@x", "a@x">>), Rule(<<"b@x", "a@x">>) >> }

----------------------------------------------------------------------------
(* The git commands getContributors runs. *)

\* `git log --all --format=%aE --author=<name> -1` (git.ts:213-217): the
\* email of the newest commit of that author, "" when there is none.
EmailForAuthor(h, name) ==
    IF \E j \in DOMAIN h : h[j].name = name
    THEN h[CHOOSE j \in DOMAIN h :
               /\ h[j].name = name
               /\ \A k \in DOMAIN h : h[k].name = name => j <= k].email
    ELSE ""

\* InsertByCommits putting c before the elements with the same commits.
InsertBeforeEqual(sorted, c) ==
    LET before == { i \in DOMAIN sorted : sorted[i].commits > c.commits }
        n == Cardinality(before)
    IN SubSeq(sorted, 1, n) \o <<c>> \o SubSeq(sorted, n + 1, Len(sorted))

\* Stable sort by commits, largest first (Array.prototype.sort with
\* (a, b) => b.commits - a.commits, git.ts:257).
InsertByCommits(sorted, c) ==
    LET before == { i \in DOMAIN sorted : sorted[i].commits >= c.commits }
        n == Cardinality(before)
    IN SubSeq(sorted, 1, n) \o <<c>> \o SubSeq(sorted, n + 1, Len(sorted))

RECURSIVE SortByCommits(_)
SortByCommits(s) ==
    IF s = <<>> THEN <<>>
    ELSE InsertByCommits(SortByCommits(SubSeq(s, 1, Len(s) - 1)), s[Len(s)])

\* `git shortlog -sn --all` (git.ts:197-202) with each line as the regular
\* expression of git.ts:207 reads it: one line per author name with its
\* number of commits, largest first, equal numbers in alphabetic order.
RECURSIVE ShortlogFrom(_, _)
ShortlogFrom(h, i) ==
    IF i > Len(NameOrder) THEN <<>>
    ELSE LET n == Cardinality({ j \in DOMAIN h : h[j].name = NameOrder[i] })
         IN (IF n > 0 THEN << [commits |-> n, name |-> NameOrder[i]] >> ELSE <<>>)
            \o ShortlogFrom(h, i + 1)

Shortlog(h) == SortByCommits(ShortlogFrom(h, 1))

\* logOutput.trim().split("\n") (git.ts:134): an empty output is one empty
\* line, which split("|") reads as an empty name and no email.
LogLines(output) ==
    IF output = <<>> THEN << [name |-> "", email |-> ""] >> ELSE output

\* commitCount.trim().split("\n") (git.ts:204): an empty output is one empty
\* line, kept here as a line with no count and an empty name.
CountLines(output) ==
    IF output = <<>> THEN << [commits |-> 0, name |-> ""] >> ELSE output

\* Matches accepting every line.
MatchesAlways(line) == TRUE

\* line.match(/^\s*(\d+)\s+(.+)$/) (git.ts:207-208): the line has a count
\* and a name.
Matches(line) == line.name # ""

\* emailOutput.trim().split("\n")[0] || "" (git.ts:213-217); the lookup of a
\* name that no commit carries prints nothing.
LookupEmail(output, name) == IF name \in DOMAIN output THEN output[name] ELSE ""

----------------------------------------------------------------------------
(* getContributors, git.ts:97-261. *)

\* git.ts:149-156: nameCounts after one more occurrence of name under key.
CountName(counts, key, name) ==
    LET nameMap == IF MapHas(counts, key) THEN MapGet(counts, key).names ELSE <<>>
        n == IF MapHas(nameMap, name) THEN MapGet(nameMap, name).count ELSE 0
    IN MapSet(counts, key,
              [key |-> key,
               names |-> MapSet(nameMap, name, [key |-> name, count |-> n + 1])])

\* NewContributor keeping the raw email although the alias map has a target.
NewContributorRawEmail(key, name, email, mappedEmail) ==
    [key |-> key, name |-> name, email |-> email,
     commits |-> 1, maxIndividualCommits |-> 1]

\* git.ts:166-172: the record of an email seen for the first time.
NewContributor(key, name, email, mappedEmail) ==
    [key |-> key, name |-> name,
     email |-> IF mappedEmail # "" THEN mappedEmail ELSE email,
     commits |-> 1, maxIndividualCommits |-> 1]

\* git.ts:136-173: contributorsMap after one line "name|email" of the log.
FullLine(map, cmap, name, email) ==
    IF name = "" \/ email = "" THEN cmap
    ELSE LET key == NormalizedEmail(map, email)
             mappedEmail == MappedEmail(map, ToLowerCase(email))
         IN IF MapHas(cmap, key)
            THEN MapSet(cmap, key,
                        [MapGet(cmap, key) EXCEPT !.commits = @ + 1])
            ELSE MapSet(cmap, key, NewContributor(key, name, email, mappedEmail))

\* MostCommonName taking the last name with the largest count.
RECURSIVE MostCommonNameLast(_, _, _, _)
MostCommonNameLast(nameMap, i, maxCount, mostCommonName) ==
    IF i > Len(nameMap) THEN mostCommonName
    ELSE IF nameMap[i].count >= maxCount
         THEN MostCommonNameLast(nameMap, i + 1, nameMap[i].count, nameMap[i].key)
         ELSE MostCommonNameLast(nameMap, i + 1, maxCount, mostCommonName)

\* git.ts:181-188: the first name with the largest count.
RECURSIVE MostCommonName(_, _, _, _)
MostCommonName(nameMap, i, maxCount, mostCommonName) ==
    IF i > Len(nameMap) THEN mostCommonName
    ELSE IF nameMap[i].count > maxCount
         THEN MostCommonName(nameMap, i + 1, nameMap[i].count, nameMap[i].key)
         ELSE MostCommonName(nameMap, i + 1, maxCount, mostCommonName)

\* git.ts:176-194: every contributor takes its most frequent name.
RECURSIVE UpdateNames(_, _, _)
UpdateNames(cmap, counts, i) ==
    IF i > Len(counts) THEN cmap
    ELSE LET key == counts[i].key
         IN UpdateNames(
                IF MapHas(cmap, key)
                THEN MapSet(cmap, key,
                         [MapGet(cmap, key) EXCEPT
                             !.name = MostCommonName(counts[i].names, 1, 0,
                                                     MapGet(cmap, key).name)])
                ELSE cmap,
                counts, i + 1)

\* SummaryKey without the case-folding.
SummaryKeyRaw(email) == email

\* git.ts:220: the aggregation key of summary mode.
SummaryKey(email) == ToLowerCase(email)

\* SummaryMerge adding the count only when the name is replaced.
SummaryMergeDropsCount(existing, name, email, n) ==
    IF n > existing.maxIndividualCommits
    THEN [key |-> existing.key, name |-> name, email |-> email,
          commits |-> existing.commits + n, maxIndividualCommits |-> n]
    ELSE existing

\* SummaryMerge comparing the count with the running total.
SummaryMergeRunningTotal(existing, name, email, n) ==
    IF n > existing.commits
    THEN [key |-> existing.key, name |-> name, email |-> email,
          commits |-> existing.commits + n, maxIndividualCommits |-> n]
    ELSE [existing EXCEPT !.commits = existing.commits + n]

\* git.ts:223-238: an entry whose email is already in the map.
SummaryMerge(existing, name, email, n) ==
    IF n > existing.maxIndividualCommits
    THEN [key |-> existing.key, name |-> name, email |-> email,
          commits |-> existing.commits + n, maxIndividualCommits |-> n]
    ELSE [existing EXCEPT !.commits = existing.commits + n]

\* git.ts:206-247: contributorsMap after one line of the shortlog, email
\* being the output of the lookup for its name.
SummaryLine(cmap, n, name, email) ==
    LET key == SummaryKey(email)
    IN IF MapHas(cmap, key)
       THEN MapSet(cmap, key, SummaryMerge(MapGet(cmap, key), name, email, n))
       ELSE MapSet(cmap, key,
                   [key |-> key, name |-> name, email |-> email,
                    commits |-> n, maxIndividualCommits |-> n])

\* git.ts:251-255
Values(cmap) ==
    [i \in DOMAIN cmap |->
        [name |-> cmap[i].name, email |-> cmap[i].email, commits |-> cmap[i].commits]]

\* git.ts:117-134: .mailmap exists; the map is parsed and the log is read.
StartFull ==
    /\ cpc = "start"
    /\ useMailmap
    /\ emailMapping' = ParseMailmapFile(mailmapReadable, mailmapContent)
    /\ commitLines' = LogLines(history)
    /\ cpc' = "full"
    /\ UNCHANGED <<repoVars, lineIdx, contributorsMap, nameCounts, contributors,
                   commitVars, clientVars, cliVars>>

\* git.ts:135-174: one iteration of the loop over the log lines.
FullStep ==
    /\ cpc = "full"
    /\ lineIdx <= Len(commitLines)
    /\ LET name == commitLines[lineIdx].name
           email == commitLines[lineIdx].email
       IN /\ contributorsMap' = FullLine(emailMapping, contributorsMap, name, email)
          /\ nameCounts' = IF name = "" \/ email = "" THEN nameCounts
                           ELSE CountName(nameCounts,
                                          NormalizedEmail(emailMapping, email), name)
    /\ lineIdx' = lineIdx + 1
    /\ cpc' = IF lineIdx = Len(commitLines) THEN "names" ELSE "full"
    /\ UNCHANGED <<repoVars, emailMapping, commitLines, contributors, commitVars,
                   clientVars, cliVars>>

\* git.ts:176-194
FullNames ==
    /\ cpc = "names"
    /\ contributorsMap' = UpdateNames(contributorsMap, nameCounts, 1)
    /\ cpc' = "sort"
    /\ UNCHANGED <<repoVars, emailMapping, commitLines, lineIdx, nameCounts, contributors,
                   commitVars, clientVars, cliVars>>

\* git.ts:195-204: no .mailmap; the shortlog is read.
StartSummary ==
    /\ cpc = "start"
    /\ ~useMailmap
    /\ commitLines' = CountLines(shortlogOutput)
    /\ cpc' = "summary"
    /\ UNCHANGED <<repoVars, emailMapping, lineIdx, contributorsMap, nameCounts, contributors,
                   commitVars, clientVars, cliVars>>

\* git.ts:206-248: one iteration of the loop over the shortlog lines.
SummaryStep ==
    /\ cpc = "summary"
    /\ lineIdx <= Len(commitLines)
    /\ LET line == commitLines[lineIdx]
       IN contributorsMap' =
              IF Matches(line)
              THEN SummaryLine(contributorsMap, line.commits, line.name,
                               LookupEmail(emailOutput, line.name))
              ELSE contributorsMap
    /\ lineIdx' = lineIdx + 1
    /\ cpc' = IF lineIdx = Len(commitLines) THEN "sort" ELSE "summary"
    /\ UNCHANGED <<repoVars, emailMapping, commitLines, nameCounts, contributors,
                   commitVars, clientVars, cliVars>>

\* git.ts:251-257
Finish ==
    /\ cpc = "sort"
    /\ contributors' = SortByCommits(Values(contributorsMap))
    /\ cpc' = "done"
    /\ UNCHANGED <<repoVars, emailMapping, commitLines, lineIdx, contributorsMap, nameCounts,
                   commitVars, clientVars, cliVars>>

\* getCommits is not running.
CommitsIdle ==
    /\ lines = <<>>
    /\ idx = 1
    /\ commits = <<>>
    /\ heap = << <<>> >>
    /\ currentCommit = <<>>
    /\ currentFilesChanged = 0
    /\ currentInsertions = 0
    /\ currentDeletions = 0
    /\ currentFiles = 1
    /\ resolveIdx = 1
    /\ parsed = <<>>
    /\ queryLog = <<>>
    /\ pc = "idle"

ContribStart ==
    /\ emailMapping = <<>>
    /\ commitLines = <<>>
    /\ lineIdx = 1
    /\ contributorsMap = <<>>
    /\ nameCounts = <<>>
    /\ contributors = <<>>
    /\ cpc = "start"

\* A repository: its history decides the output of the git commands.
Authors == { [name |-> n, email |-> e] : n \in {"Alice", "Bob"}, e \in Emails }

InitContrib ==
    /\ CommitsIdle
    /\ ClientIdle
    /\ CliIdle
    /\ ContribStart
    /\ history \in SeqsUpTo(Authors, MaxHistory)
    /\ shortlogOutput = Shortlog(history)
    /\ emailOutput = [n \in Names |-> EmailForAuthor(history, n)]
    /\ useMailmap \in BOOLEAN
    /\ mailmapReadable \in IF useMailmap THEN BOOLEAN ELSE { FALSE }
    /\ mailmapContent \in IF useMailmap THEN MailmapFiles ELSE { <<>> }

NextContrib == StartFull \/ FullStep \/ FullNames \/ StartSummary \/ SummaryStep \/ Finish

SpecContrib == InitContrib /\ [][NextContrib]_vars

----------------------------------------------------------------------------
(* getCommits in a repository with a .mailmap file (git.ts:285-289). The    *)
(* log is printed with %an and %ae, the placeholders that give the author   *)
(* as the commit records it, so the lines are the same with and without     *)
(* --use-mailmap.                                                           *)

HistoryMailmapFiles == { << Rule(<<"jane@corp.com", "jane@x.com">>) >> }

InitHistory ==
    /\ ClientIdle
    /\ CliIdle
    /\ CommitsStart
    /\ useMailmap \in BOOLEAN
    /\ mailmapReadable = useMailmap
    /\ mailmapContent \in IF useMailmap THEN HistoryMailmapFiles ELSE { <<>> }
    /\ history = <<>>
    /\ shortlogOutput = <<>>
    /\ emailOutput = <<>>
    /\ emailMapping = <<>>
    /\ commitLines = <<>>
    /\ lineIdx = 1
    /\ contributorsMap = <<>>
    /\ nameCounts = <<>>
    /\ contributors = <<>>
    /\ cpc = "idle"

SpecHistory == InitHistory /\ [][NextCommits]_vars

----------------------------------------------------------------------------
(* A run of getCommits or a run of getContributors. *)

Init == InitCommits \/ InitContrib

Next == NextCommits \/ NextContrib

Spec == Init /\ [][Next]_vars

----------------------------------------------------------------------------
(* Client.listContributors and Client.getHistory, lib.ts:132-213. A path is *)
(* kept as what the loop finds there: a repository whose extraction         *)
(* succeeds, a directory that is no git repository, or a repository whose   *)
(* extraction fails.                                                        *)

RepoKinds == {"repo", "notGit", "failing"}
Methods == {"listContributors", "getHistory"}

\* lib.ts:137-140 and 183-186
CheckPaths ==
    /\ clientPc = "start"
    /\ IF Len(paths) = 0
       THEN /\ error' = << [kind |-> "NoPaths", path |-> 0] >>
            /\ clientPc' = "thrown"
       ELSE /\ error' = error
            /\ clientPc' = "loop"
    /\ UNCHANGED <<method, paths, repoIdx, results, commitVars, contribVars, cliVars>>

\* lib.ts:148-151 and 194-197: isGitRepo(repoPath) is false.
NotAGitRepo ==
    /\ clientPc = "loop"
    /\ repoIdx <= Len(paths)
    /\ paths[repoIdx] = "notGit"
    /\ error' = << [kind |-> "NotAGitRepo", path |-> repoIdx] >>
    /\ clientPc' = "thrown"
    /\ UNCHANGED <<method, paths, repoIdx, results, commitVars, contribVars, cliVars>>

\* lib.ts:153-158 and 199-204: the extraction returns and its result is pushed.
Extracted ==
    /\ clientPc = "loop"
    /\ repoIdx <= Len(paths)
    /\ paths[repoIdx] = "repo"
    /\ results' = Append(results, [path |-> repoIdx])
    /\ repoIdx' = repoIdx + 1
    /\ UNCHANGED <<method, paths, error, clientPc, commitVars, contribVars, cliVars>>

\* lib.ts:159-163 and 205-209: the extraction throws and the catch block
\* throws a new Error.
ExtractionFails ==
    /\ clientPc = "loop"
    /\ repoIdx <= Len(paths)
    /\ paths[repoIdx] = "failing"
    /\ error' = << [kind |-> "Failed", path |-> repoIdx] >>
    /\ clientPc' = "thrown"
    /\ UNCHANGED <<method, paths, repoIdx, results, commitVars, contribVars, cliVars>>

\* lib.ts:166 and 212
Return ==
    /\ clientPc = "loop"
    /\ repoIdx > Len(paths)
    /\ clientPc' = "returned"
    /\ UNCHANGED <<method, paths, repoIdx, results, error, commitVars, contribVars, cliVars>>

InitClient ==
    /\ CommitsIdle
    /\ ContribIdle
    /\ CliIdle
    /\ method \in Methods
    /\ paths \in SeqsUpTo(RepoKinds, MaxRepos)
    /\ repoIdx = 1
    /\ results = <<>>
    /\ error = <<>>
    /\ clientPc = "start"

NextClient == CheckPaths \/ NotAGitRepo \/ Extracted \/ ExtractionFails \/ Return

SpecClient == InitClient /\ [][NextClient]_vars

----------------------------------------------------------------------------
(* The unique-emails output of the contributors command, part_003:40-86.    *)
(* `entries` is what the two nested loops of part_003:52-53 visit, in their *)
(* order: the contributors of the first result, then those of the second,   *)
(* and so on.                                                               *)

ContributorRecords ==
    [name : {"Alice", "Bob"}, email : {"a@x", "A@x", "b@x"}, commits : 1..MaxCount]

\* A variant of DedupMerge that keeps the name of the first entry.
DedupMergeKeepsFirst(existing, contributor) ==
    [existing EXCEPT !.commits = existing.commits + contributor.commits]

\* part_003:57-72: the entry of an email that is already in the Map.
DedupMerge(existing, contributor) ==
    LET newTotal == existing.commits + contributor.commits
    IN IF contributor.commits > existing.maxIndividualCommits
       THEN [key |-> existing.key,
             name |-> contributor.name,
             email |-> contributor.email,
             commits |-> newTotal,
             maxIndividualCommits |-> contributor.commits]
       ELSE [existing EXCEPT !.commits = newTotal]

\* part_003:54-80: one pass of the inner loop.
DedupEntry(map, contributor) ==
    LET emailLower == ToLowerCase(contributor.email)
    IN IF MapHas(map, emailLower)
       THEN MapSet(map, emailLower, DedupMerge(MapGet(map, emailLower), contributor))
       ELSE MapSet(map, emailLower,
                   [key |-> emailLower,
                    name |-> contributor.name,
                    email |-> contributor.email,
                    commits |-> contributor.commits,
                    maxIndividualCommits |-> contributor.commits])

\* part_003:52-82
DedupStep ==
    /\ dedupPc = "loop"
    /\ entryIdx <= Len(entries)
    /\ emailMap' = DedupEntry(emailMap, entries[entryIdx])
    /\ entryIdx' = entryIdx + 1
    /\ UNCHANGED <<entries, uniqueContributors, dedupPc, configVars, ensureVars,
                   commitVars, contribVars, clientVars>>

\* part_003:84-86
DedupSort ==
    /\ dedupPc = "loop"
    /\ entryIdx > Len(entries)
    /\ uniqueContributors' = SortByCommits(emailMap)
    /\ dedupPc' = "done"
    /\ UNCHANGED <<entries, entryIdx, emailMap, configVars, ensureVars,
                   commitVars, contribVars, clientVars>>

InitDedup ==
    /\ CommitsIdle
    /\ ContribIdle
    /\ ClientIdle
    /\ ConfigIdle
    /\ EnsureIdle
    /\ entries \in SeqsUpTo(ContributorRecords, MaxEntries)
    /\ entryIdx = 1
    /\ emailMap = <<>>
    /\ uniqueContributors = <<>>
    /\ dedupPc = "loop"

NextDedup == DedupStep \/ DedupSort

SpecDedup == InitDedup /\ [][NextDedup]_vars

----------------------------------------------------------------------------
(* findConfigFile, part_000:44-67. A directory is known by the number of    *)
(* its ancestors: the filesystem root is 0, and dirname of the root is the  *)
(* root.                                                                    *)

maxDepth == 20

Dirname(dir) == IF dir = 0 THEN 0 ELSE dir - 1

\* part_000:51-57: the config file exists in the current directory.
ConfigFound ==
    /\ configPc = "search"
    /\ depth < maxDepth
    /\ currentPath \in configDirs
    /\ found' = <<currentPath>>
    /\ configPc' = "returned"
    /\ UNCHANGED <<startDepth, configDirs, currentPath, depth, dedupVars, ensureVars,
                   commitVars, contribVars, clientVars>>

\* part_000:59-64: up to the parent directory.
ConfigUp ==
    /\ configPc = "search"
    /\ depth < maxDepth
    /\ currentPath \notin configDirs
    /\ Dirname(currentPath) # currentPath
    /\ currentPath' = Dirname(currentPath)
    /\ depth' = depth + 1
    /\ UNCHANGED <<startDepth, configDirs, found, configPc, dedupVars, ensureVars,
                   commitVars, contribVars, clientVars>>

\* part_000:60-62 and 66: the root is reached.
ConfigRoot ==
    /\ configPc = "search"
    /\ depth < maxDepth
    /\ currentPath \notin configDirs
    /\ Dirname(currentPath) = currentPath
    /\ found' = <<>>
    /\ configPc' = "returned"
    /\ UNCHANGED <<startDepth, configDirs, currentPath, depth, dedupVars, ensureVars,
                   commitVars, contribVars, clientVars>>

\* part_000:50 and 66: the loop ends after maxDepth directories.
ConfigGiveUp ==
    /\ configPc = "search"
    /\ depth >= maxDepth
    /\ found' = <<>>
    /\ configPc' = "returned"
    /\ UNCHANGED <<startDepth, configDirs, currentPath, depth, dedupVars, ensureVars,
                   commitVars, contribVars, clientVars>>

InitConfig ==
    /\ CommitsIdle
    /\ ContribIdle
    /\ ClientIdle
    /\ DedupIdle
    /\ EnsureIdle
    /\ startDepth \in 0..MaxNesting
    /\ configDirs \in {{}} \cup { {a, b} : a, b \in 0..startDepth }
    /\ currentPath = startDepth
    /\ depth = 0
    /\ found = <<>>
    /\ configPc = "search"

NextConfig == ConfigFound \/ ConfigUp \/ ConfigRoot \/ ConfigGiveUp

SpecConfig == InitConfig /\ [][NextConfig]_vars

----------------------------------------------------------------------------
(* ensureRepository, repo.ts. The file declares the function twice: at line *)
(* 11 (no pullIfExists, no fetch after the clone) and at line 77. What is   *)
(* at repo.path is "missing", "dir" (exists, no .git) or "gitRepo";         *)
(* isGitRepo (git.ts:69-76) catches its own errors. Every command can       *)
(* succeed or fail.                                                         *)

RepositoryConfigs ==
    [name : BOOLEAN, path : {"none", "missing", "dir", "gitRepo"}, url : BOOLEAN]

Ran(cmd, ok) == Append(commandsRun, [cmd |-> cmd, ok |-> ok])

\* repo.ts:147 (return repo.path) and 148-151 (catch: return null).
CloneResult(ok) == IF ok THEN "path" ELSE "null"

\* A variant of UpdateResult that gives up the repository when the update
\* fails.
UpdateResultNullOnFailure(ok) == IF ok THEN "path" ELSE "null"

\* repo.ts:99-105: a failed update is caught and the path is returned.
UpdateResult(ok) == "path"

\* repo.ts:15-20 and 81-87
EnsureNoPath ==
    /\ ensurePc = "start"
    /\ repo.path = "none"
    /\ ensured' = "null"
    /\ ensurePc' = "returned"
    /\ UNCHANGED <<repo, pullIfExists, definition, commandsRun, dedupVars, configVars,
                   commitVars, contribVars, clientVars>>

\* repo.ts:23-25 and 90-106
EnsureExisting ==
    /\ ensurePc = "start"
    /\ repo.path = "gitRepo"
    /\ IF definition = 77 /\ pullIfExists
       THEN /\ ensurePc' = "fetch"
            /\ UNCHANGED ensured
       ELSE /\ ensured' = "path"
            /\ ensurePc' = "returned"
    /\ UNCHANGED <<repo, pullIfExists, definition, commandsRun, dedupVars, configVars,
                   commitVars, contribVars, clientVars>>

\* repo.ts:94-95, 99-105
EnsureFetch ==
    /\ ensurePc = "fetch"
    /\ \E ok \in BOOLEAN :
        /\ commandsRun' = Ran("fetch", ok)
        /\ IF ok
           THEN /\ ensurePc' = "pull"
                /\ UNCHANGED ensured
           ELSE /\ ensured' = UpdateResult(FALSE)
                /\ ensurePc' = "returned"
    /\ UNCHANGED <<repo, pullIfExists, definition, dedupVars, configVars,
                   commitVars, contribVars, clientVars>>

\* repo.ts:96-105
EnsurePull ==
    /\ ensurePc = "pull"
    /\ \E ok \in BOOLEAN :
        /\ commandsRun' = Ran("pull", ok)
        /\ ensured' = UpdateResult(ok)
    /\ ensurePc' = "returned"
    /\ UNCHANGED <<repo, pullIfExists, definition, dedupVars, configVars,
                   commitVars, contribVars, clientVars>>

\* repo.ts:28-33 and 109-114
EnsureNotARepo ==
    /\ ensurePc = "start"
    /\ repo.path = "dir"
    /\ ensured' = "null"
    /\ ensurePc' = "returned"
    /\ UNCHANGED <<repo, pullIfExists, definition, commandsRun, dedupVars, configVars,
                   commitVars, contribVars, clientVars>>

\* repo.ts:36-41 and 117-122
EnsureNoUrl ==
    /\ ensurePc = "start"
    /\ repo.path = "missing"
    /\ ~repo.url
    /\ ensured' = "null"
    /\ ensurePc' = "returned"
    /\ UNCHANGED <<repo, pullIfExists, definition, commandsRun, dedupVars, configVars,
                   commitVars, contribVars, clientVars>>

\* repo.ts:44-54 and 125-135: the error of mkdir is ignored.
EnsureMkdir ==
    /\ ensurePc = "start"
    /\ repo.path = "missing"
    /\ repo.url
    /\ \E ok \in BOOLEAN : commandsRun' = Ran("mkdir", ok)
    /\ ensurePc' = "clone"
    /\ UNCHANGED <<repo, pullIfExists, definition, ensured, dedupVars, configVars,
                   commitVars, contribVars, clientVars>>

\* repo.ts:57-64 and 138, 148-151
EnsureClone ==
    /\ ensurePc = "clone"
    /\ \E ok \in BOOLEAN :
        /\ commandsRun' = Ran("clone", ok)
        /\ IF ok /\ definition = 77
           THEN /\ ensurePc' = "fetchNew"
                /\ UNCHANGED ensured
           ELSE /\ ensured' = CloneResult(ok)
                /\ ensurePc' = "returned"
    /\ UNCHANGED <<repo, pullIfExists, definition, dedupVars, configVars,
                   commitVars, contribVars, clientVars>>

\* repo.ts:141-147: the error of the fetch after the clone is ignored.
EnsureFetchNew ==
    /\ ensurePc = "fetchNew"
    /\ \E ok \in BOOLEAN : commandsRun' = Ran("fetch", ok)
    /\ ensured' = CloneResult(TRUE)
    /\ ensurePc' = "returned"
    /\ UNCHANGED <<repo, pullIfExists, definition, dedupVars, configVars,
                   commitVars, contribVars, clientVars>>

InitEnsure ==
    /\ CommitsIdle
    /\ ContribIdle
    /\ ClientIdle
    /\ DedupIdle
    /\ ConfigIdle
    /\ repo \in RepositoryConfigs
    /\ definition \in {11, 77}
    /\ pullIfExists \in BOOLEAN
    /\ commandsRun = <<>>
    /\ ensured = "none"
    /\ ensurePc = "start"

NextEnsure ==
    \/ EnsureNoPath
    \/ EnsureExisting
    \/ EnsureFetch
    \/ EnsurePull
    \/ EnsureNotARepo
    \/ EnsureNoUrl
    \/ EnsureMkdir
    \/ EnsureClone
    \/ EnsureFetchNew

SpecEnsure == InitEnsure /\ [][NextEnsure]_vars

----------------------------------------------------------------------------
(* Claims about getCommits. *)

RECURSIVE SumInsertions(_), SumDeletions(_)
SumInsertions(fs) == IF fs = <<>> THEN 0 ELSE fs[1].insertions + SumInsertions(Tail(fs))
SumDeletions(fs) == IF fs = <<>> THEN 0 ELSE fs[1].deletions + SumDeletions(Tail(fs))

\* A line that contains "|" and whose hash, author name, author email and
\* timestamp fields are all present.
SyntacticallyValidHeader(line) ==
    /\ line.kind = "header"
    /\ \A k \in 1..4 : Trim(Part(line.parts, k)) # ""

NumValidHeaders == Cardinality({ i \in DOMAIN lines : SyntacticallyValidHeader(lines[i]) })

\* C1: the number of commits returned by the log parser equals the number of
\* syntactically valid header lines of the log text.
C1_CommitCountEqualsValidHeaders ==
    pc = "done" => Len(commits) = NumValidHeaders

\* C2: every returned commit has filesChanged = number of entries of files,
\* insertions = sum of its files' insertions, deletions = sum of its files'
\* deletions.
C2_CountersMatchFiles ==
    pc = "done" =>
        \A i \in DOMAIN commits :
            /\ commits[i].filesChanged = Len(heap[commits[i].files])
            /\ commits[i].insertions = SumInsertions(heap[commits[i].files])
            /\ commits[i].deletions = SumDeletions(heap[commits[i].files])

HeaderHashesDistinct ==
    \A i, j \in DOMAIN lines :
        (i # j /\ lines[i].kind = "header" /\ lines[j].kind = "header")
            => Trim(Part(lines[i].parts, 1)) # Trim(Part(lines[j].parts, 1))

\* C3: when the header lines carry pairwise distinct hashes, no two returned
\* commits have the same hash.
C3_HashesUnique ==
    (pc = "done" /\ HeaderHashesDistinct) =>
        \A i, j \in DOMAIN commits : i # j => commits[i].hash # commits[j].hash

----------------------------------------------------------------------------
(* Summary mode on its own: the repository is given by the output of its    *)
(* two commands, the shortlog lines and the email looked up for each name.  *)

ShortlogLines == [commits : 1..MaxCount, name : Names]

DistinctNames(s) == \A i, j \in DOMAIN s : i # j => s[i].name # s[j].name

InitSummary ==
    /\ CommitsIdle
    /\ ClientIdle
    /\ CliIdle
    /\ ContribStart
    /\ useMailmap = FALSE
    /\ mailmapReadable = FALSE
    /\ mailmapContent = <<>>
    /\ history = <<>>
    /\ shortlogOutput \in { s \in SeqsUpTo(ShortlogLines, MaxShortlog) : DistinctNames(s) }
    /\ emailOutput \in [Names -> Emails]

NextSummary == StartSummary \/ SummaryStep \/ Finish

SpecSummary == InitSummary /\ [][NextSummary]_vars

----------------------------------------------------------------------------
(* Claims about getContributors. *)

\* The identity events of the input: the well-formed "name|email" lines of the
\* log in full-identity mode, the shortlog lines in summary mode.
WellFormed(line) == line.name # "" /\ line.email # ""

\* The raw email of every identity event.
InputEmails ==
    IF useMailmap
    THEN { history[j].email : j \in { k \in DOMAIN history : WellFormed(history[k]) } }
    ELSE { emailOutput[shortlogOutput[j].name] : j \in DOMAIN shortlogOutput }

RECURSIVE SumCommits(_)
SumCommits(s) == IF s = <<>> THEN 0 ELSE s[1].commits + SumCommits(Tail(s))

NumEvents ==
    IF useMailmap
    THEN Cardinality({ j \in DOMAIN history : WellFormed(history[j]) })
    ELSE SumCommits(shortlogOutput)

\* C4 as stated: every returned contributor's email is the lowercase canonical
\* email.
C4_EmailIsLowercase ==
    cpc = "done" =>
        \A i \in DOMAIN contributors :
            contributors[i].email = ToLowerCase(contributors[i].email)

\* C4 as amended: every returned contributor's email case-folds to the
\* canonical email of an input entry (its aggregation key); the field itself
\* is either that canonical email or the raw email of such an entry.
C4_EmailFoldsToKey ==
    cpc = "done" =>
        \A i \in DOMAIN contributors :
            \E e \in InputEmails :
                /\ NormalizedEmail(emailMapping, e) = ToLowerCase(contributors[i].email)
                /\ contributors[i].email \in {e, NormalizedEmail(emailMapping, e)}

\* A contributor is returned with an email that is not lowercase, and another
\* with the target of an alias rule.
C4_Witness ==
    /\ cpc = "done"
    /\ \E i \in DOMAIN contributors :
           contributors[i].email # ToLowerCase(contributors[i].email)
    /\ \E i \in DOMAIN contributors :
           /\ contributors[i].email \notin InputEmails
           /\ contributors[i].email \in { emailMapping[k] : k \in DOMAIN emailMapping }

\* C5: one contributor per canonical email: no two returned contributors have
\* the same canonical email, and every input entry is merged into exactly one
\* contributor, the one of its canonical email.
C5_OnePerCanonicalEmail ==
    cpc = "done" =>
        /\ \A i, j \in DOMAIN contributors :
               i # j => ToLowerCase(contributors[i].email) # ToLowerCase(contributors[j].email)
        /\ \A e \in InputEmails :
               Cardinality({ i \in DOMAIN contributors :
                   ToLowerCase(contributors[i].email) = NormalizedEmail(emailMapping, e) }) = 1

\* Entries with different raw emails were merged, by case in summary mode or
\* by an alias rule in full-identity mode.
C5_Witness ==
    /\ cpc = "done"
    /\ Cardinality(InputEmails) = 3
    /\ Len(contributors) = 1

\* C6: canonicalization is idempotent for every alias map and raw email.
C6_CanonicalizeIdempotent ==
    \A e \in Emails \cup {"B@x", "c@x"} :
        NormalizedEmail(emailMapping, NormalizedEmail(emailMapping, e))
            = NormalizedEmail(emailMapping, e)

\* C7: the commits of the returned contributors sum to the number of input
\* identity events.
C7_TotalEqualsEvents ==
    cpc = "done" => SumCommits(contributors) = NumEvents

\* Several events were merged into one contributor.
C7_Witness ==
    /\ cpc = "done"
    /\ ~useMailmap
    /\ Len(shortlogOutput) = 2
    /\ Len(contributors) = 1
    /\ contributors[1].commits = 3

NoEmptyEmail == \A j \in DOMAIN history : history[j].email # ""

\* C8: each contributor's commits is the number of log entries whose
\* canonicalized author email is the contributor's canonical email.
C8_CommitsMatchLogEntries ==
    (cpc = "done" /\ NoEmptyEmail) =>
        \A i \in DOMAIN contributors :
            contributors[i].commits =
                Cardinality({ j \in DOMAIN history :
                    NormalizedEmail(emailMapping, history[j].email)
                        = ToLowerCase(contributors[i].email) })

\* The contributors map of each mode for a history, run from start to end.
RECURSIVE FullRun(_, _, _), SummaryRun(_, _, _)
FullRun(cmap, h, i) ==
    IF i > Len(h) THEN cmap
    ELSE FullRun(FullLine(<<>>, cmap, h[i].name, h[i].email), h, i + 1)
SummaryRun(cmap, h, i) ==
    IF i > Len(Shortlog(h)) THEN cmap
    ELSE SummaryRun(SummaryLine(cmap, Shortlog(h)[i].commits, Shortlog(h)[i].name,
                                EmailForAuthor(h, Shortlog(h)[i].name)), h, i + 1)

CountsOf(cs) == { <<ToLowerCase(cs[i].email), cs[i].commits>> : i \in DOMAIN cs }

\* C9: without alias rules, full-identity mode and summary mode return the
\* same canonical emails with the same commit counts for the same history.
C9_ModesAgree ==
    (cpc = "done" /\ NoEmptyEmail /\ DOMAIN ParseMailmap(mailmapContent) = {}) =>
        CountsOf(contributors) =
            CountsOf(IF useMailmap THEN SummaryRun(<<>>, history, 1)
                                   ELSE FullRun(<<>>, history, 1))

\* The shortlog lines whose looked-up email case-folds to k.
Colliding(k) ==
    { j \in DOMAIN shortlogOutput : ToLowerCase(emailOutput[shortlogOutput[j].name]) = k }

RECURSIVE SumOver(_)
SumOver(J) ==
    IF J = {} THEN 0
    ELSE LET j == CHOOSE x \in J : TRUE
         IN shortlogOutput[j].commits + SumOver(J \ {j})

\* The earliest line of J with the largest count of J.
LargestIndividual(J) ==
    CHOOSE j \in J :
        \A k \in J : \/ shortlogOutput[k].commits < shortlogOutput[j].commits
                     \/ (shortlogOutput[k].commits = shortlogOutput[j].commits /\ j <= k)

\* C10: in summary mode the entries whose case-folded emails collide are one
\* contributor; its commits is the sum of their counts and its name is the name
\* of the entry with the largest individual count, the earliest on equal counts.
C10_SummaryMerge ==
    (cpc = "done" /\ ~useMailmap) =>
        /\ \A j \in DOMAIN shortlogOutput : \E i \in DOMAIN contributors :
               ToLowerCase(contributors[i].email)
                   = ToLowerCase(emailOutput[shortlogOutput[j].name])
        /\ \A i \in DOMAIN contributors :
               LET J == Colliding(ToLowerCase(contributors[i].email))
               IN /\ J # {}
                  /\ contributors[i].commits = SumOver(J)
                  /\ contributors[i].name = shortlogOutput[LargestIndividual(J)].name

\* Three entries collide; the third has a larger count than each of the first
\* two but not than their sum, and gives the contributor its name.
C10_Witness ==
    /\ cpc = "done"
    /\ ~useMailmap
    /\ Len(shortlogOutput) = 3
    /\ Len(contributors) = 1
    /\ shortlogOutput[1].commits = shortlogOutput[2].commits
    /\ shortlogOutput[3].commits > shortlogOutput[1].commits
    /\ shortlogOutput[3].commits <= shortlogOutput[1].commits + shortlogOutput[2].commits
    /\ contributors[1].name = shortlogOutput[3].name

\* The log entries of full-identity mode that are counted under key k.
EntriesOf(k) ==
    { j \in DOMAIN history :
        WellFormed(history[j]) /\ NormalizedEmail(emailMapping, history[j].email) = k }

\* The number of entries of J with the name of entry j, and the first entry
\* of J with that name.
Occurrences(J, j) == Cardinality({ k \in J : history[k].name = history[j].name })
FirstSeen(J, j) ==
    CHOOSE k \in J : /\ history[k].name = history[j].name
                     /\ \A l \in J : history[l].name = history[j].name => k <= l

\* C11: in full-identity mode the name of a contributor is the raw name that
\* occurs most often among the log entries of its canonical email, and among
\* the names with that largest number of occurrences the one seen first.
C11_MostFrequentName ==
    (cpc = "done" /\ useMailmap) =>
        \A i \in DOMAIN contributors :
            LET J == EntriesOf(ToLowerCase(contributors[i].email))
            IN \E j \in J :
                   /\ contributors[i].name = history[j].name
                   /\ \A k \in J :
                          \/ Occurrences(J, k) < Occurrences(J, j)
                          \/ /\ Occurrences(J, k) = Occurrences(J, j)
                             /\ FirstSeen(J, j) <= FirstSeen(J, k)

\* A contributor whose first log entry carries a name that its later entries
\* outnumber: the name returned is not the name seen first.
C11_Witness ==
    /\ cpc = "done"
    /\ useMailmap
    /\ Len(contributors) = 1
    /\ Cardinality(EntriesOf(ToLowerCase(contributors[1].email))) = 3
    /\ contributors[1].name # history[1].name

\* The position in the input of the first identity event of canonical email k.
FirstEncounter(k) ==
    IF useMailmap
    THEN CHOOSE j \in EntriesOf(k) : \A l \in EntriesOf(k) : j <= l
    ELSE CHOOSE j \in Colliding(k) : \A l \in Colliding(k) : j <= l

\* C12: the contributors are returned by commits in non-increasing order, and
\* contributors with equal commits in the order in which their canonical
\* emails were first encountered in the input.
C12_SortedStable ==
    cpc = "done" =>
        \A i, j \in DOMAIN contributors :
            i < j =>
                \/ contributors[i].commits > contributors[j].commits
                \/ /\ contributors[i].commits = contributors[j].commits
                   /\ FirstEncounter(ToLowerCase(contributors[i].email))
                          < FirstEncounter(ToLowerCase(contributors[j].email))

\* Three contributors: the second encountered has the most commits and is
\* returned first, the other two have equal commits and keep their order.
C12_Witness ==
    /\ cpc = "done"
    /\ Len(contributors) = 3
    /\ FirstEncounter(ToLowerCase(contributors[1].email)) = 2
    /\ FirstEncounter(ToLowerCase(contributors[2].email)) = 1
    /\ FirstEncounter(ToLowerCase(contributors[3].email)) = 3
    /\ contributors[2].commits = contributors[3].commits

----------------------------------------------------------------------------
(* Claims about the branches of the commits returned by getCommits. *)

\* The remotes of the repositories of the model.
RemoteNames == {"origin", "fork"}

\* The name still carries remotes/<remote>/ or <remote>/.
HasRemotePrefix(name) ==
    /\ name # <<>>
    /\ \/ name[1] = "remotes/"
       \/ Len(name) >= 2 /\ name[1] \in RemoteNames /\ name[2] = "/"

NoDuplicates(names) == \A i, j \in DOMAIN names : i # j => names[i] # names[j]

\* C13: after parsing and branch resolution the branches of every returned
\* commit hold no name twice and no name that still carries a remote-tracking
\* prefix, whatever the name of the remote.
C13_NoDuplicateNoRemotePrefix ==
    pc = "done" =>
        \A i \in DOMAIN commits :
            /\ NoDuplicates(commits[i].branches)
            /\ \A k \in DOMAIN commits[i].branches :
                   ~HasRemotePrefix(commits[i].branches[k])

\* The name is HEAD, the HEAD pointer of a remote, a "HEAD -> x" entry or the
\* marker of a detached HEAD.
RefersToHead(name) ==
    /\ name # <<>>
    /\ \/ name[Len(name)] = "HEAD"
       \/ name[1] = "(HEAD detached at "
       \/ \E k \in DOMAIN name : name[k] = " -> "

\* C14: no returned commit has a branch entry that is HEAD or refers to HEAD,
\* whether the entry comes from the decoration or from the contains query.
C14_NoHeadEntry ==
    pc = "done" =>
        \A i \in DOMAIN commits :
            \A k \in DOMAIN commits[i].branches :
                ~RefersToHead(commits[i].branches[k])

\* C15: a failed contains query raises no error and leaves the commit as it
\* was after the decoration was parsed; every commit is still queried and the
\* whole sequence of commits is returned.
C15_FailedQueryKeepsBranches ==
    /\ pc \in {"parse", "resolve", "done"}
    /\ \A i \in DOMAIN queryLog :
           ~queryLog[i].ok => /\ i \in DOMAIN commits
                              /\ i \in DOMAIN parsed
                              /\ commits[i] = parsed[i]
    /\ pc = "done" => /\ Len(queryLog) = Len(commits)
                      /\ Len(commits) = Len(parsed)
                      /\ \A i \in DOMAIN commits :
                             [commits[i] EXCEPT !.branches = parsed[i].branches] = parsed[i]

\* The query of the first commit failed and left its decoration branches; the
\* query of the second commit was run and added names.
C15_Witness ==
    /\ pc = "done"
    /\ Len(commits) >= 2
    /\ ~queryLog[1].ok
    /\ commits[1].branches # <<>>
    /\ queryLog[2].ok
    /\ commits[2].branches # parsed[2].branches

Reverse(s) == [i \in DOMAIN s |-> s[Len(s) + 1 - i]]
ToSet(s) == { s[i] : i \in DOMAIN s }

\* C16: the union of the branches of a commit with the names of a query is
\* commutative and idempotent: the lines of the output in reversed order, two
\* outputs in either order, or the same output once more, give the same set
\* of names. It is stated for the decoration branches of every commit when
\* the branch pass begins, and for the query the run has just made.
C16_UnionCommutativeIdempotent ==
    /\ (pc = "resolve" /\ resolveIdx = 1) =>
           \A i \in DOMAIN commits : \A o1, o2 \in ContainsOutputs :
               LET b == commits[i].branches
                   r1 == Resolved(b, o1)
               IN /\ ToSet(Resolved(b, Reverse(o1))) = ToSet(r1)
                  /\ ToSet(Resolved(r1, o2)) = ToSet(Resolved(Resolved(b, o2), o1))
                  /\ ToSet(Resolved(r1, o1)) = ToSet(r1)
    /\ (queryLog # <<>> /\ queryLog[Len(queryLog)].ok) =>
           LET i == Len(queryLog)
           IN /\ ToSet(commits[i].branches)
                     = ToSet(Resolved(parsed[i].branches, Reverse(queryLog[i].output)))
              /\ ToSet(Resolved(commits[i].branches, queryLog[i].output))
                     = ToSet(commits[i].branches)

\* A commit with decoration branches took names from a query whose lines in
\* reversed order give the same names in another order.
C16_Witness ==
    /\ pc = "done"
    /\ \E i \in DOMAIN queryLog :
           /\ queryLog[i].ok
           /\ parsed[i].branches # <<>>
           /\ commits[i].branches # parsed[i].branches
           /\ Resolved(parsed[i].branches, Reverse(queryLog[i].output)) # commits[i].branches

----------------------------------------------------------------------------
(* Claims about a run over several repositories. *)

\* C17: in a run of Client.listContributors or Client.getHistory over several
\* repositories, the failure of one repository does not abort the others:
\* when the call ends, every repository whose extraction succeeds has its
\* result, and only such repositories have one.
C17_FailureIsolated ==
    clientPc \in {"returned", "thrown"} =>
        /\ \A i \in DOMAIN paths :
               paths[i] = "repo" => \E k \in DOMAIN results : results[k].path = i
        /\ \A k \in DOMAIN results : paths[results[k].path] = "repo"

----------------------------------------------------------------------------
(* Claims about the alias file and about empty input. *)

\* The header line that opened the commit of this hash.
HeaderOf(hash) ==
    lines[CHOOSE j \in DOMAIN lines :
              /\ lines[j].kind = "header"
              /\ ValidHeader(lines[j].parts)
              /\ Trim(Part(lines[j].parts, 1)) = hash]

\* C18: on the history path the email of every returned commit is the
\* canonical email of the author email of its header under the alias map of
\* the repository when alias rules are in effect, and the author email of its
\* header as it is when they are not.
C18_HistoryEmailCanonical ==
    pc = "done" =>
        \A i \in DOMAIN commits :
            LET raw == Part(HeaderOf(commits[i].hash).parts, 3)
            IN commits[i].email =
                   IF useMailmap
                   THEN NormalizedEmail(ParseMailmapFile(mailmapReadable, mailmapContent),
                                        raw)
                   ELSE raw

\* C19: empty log text makes getCommits return no commit, and empty log text
\* or empty shortlog text makes getContributors return no contributor, in
\* full-identity mode and in summary mode; the run ends in its final state.
C19_EmptyInputEmptyOutput ==
    /\ (pc = "done" /\ lines = <<>>) => commits = <<>>
    /\ (cpc = "done" /\ useMailmap /\ history = <<>>) => contributors = <<>>
    /\ (cpc = "done" /\ ~useMailmap /\ shortlogOutput = <<>>) => contributors = <<>>
    /\ (pc = "parse" /\ lines = <<>>) => currentCommit = <<>>
    /\ (cpc \in {"names", "sort"} /\ useMailmap /\ history = <<>>) => contributorsMap = <<>>
    /\ (cpc = "sort" /\ ~useMailmap /\ shortlogOutput = <<>>) => contributorsMap = <<>>

\* Summary mode has looped over the one empty line of an empty shortlog and
\* returned no contributor.
C19_Witness ==
    /\ cpc = "done"
    /\ ~useMailmap
    /\ shortlogOutput = <<>>
    /\ Len(commitLines) = 1
    /\ lineIdx = 2
    /\ contributors = <<>>

\* The number of well-formed log entries whose email case-folds to k.
FoldedCount(k) ==
    Cardinality({ j \in DOMAIN history :
                    WellFormed(history[j]) /\ ToLowerCase(history[j].email) = k })

\* C20: when .mailmap exists and cannot be read, parseMailmap returns an empty
\* map without an error, canonicalization is case-folding only, and
\* full-identity mode returns the contributors of the case-folded emails.
C20_UnreadableMailmap ==
    (useMailmap /\ ~mailmapReadable /\ cpc # "start") =>
        /\ DOMAIN emailMapping = {}
        /\ \A e \in Emails \cup {"B@x", "c@x"} :
               NormalizedEmail(emailMapping, e) = ToLowerCase(e)
        /\ cpc = "done" =>
               /\ \A j \in DOMAIN history :
                      WellFormed(history[j]) =>
                          \E i \in DOMAIN contributors :
                              ToLowerCase(contributors[i].email)
                                  = ToLowerCase(history[j].email)
               /\ \A i \in DOMAIN contributors :
                      /\ contributors[i].commits
                             = FoldedCount(ToLowerCase(contributors[i].email))
                      /\ contributors[i].commits > 0

\* Full-identity mode has returned contributors although the file, which
\* holds a rule for the email of one of them, could not be read.
C20_Witness ==
    /\ cpc = "done"
    /\ useMailmap
    /\ ~mailmapReadable
    /\ contributors # <<>>
    /\ \E i \in DOMAIN contributors :
           ToLowerCase(contributors[i].email) \in DOMAIN ParseMailmap(mailmapContent)

----------------------------------------------------------------------------
(* Claims about the lines of the log and the branch pass. *)

\* The positions of the valid headers that carry this hash.
HeadersOf(hash) ==
    { j \in DOMAIN lines : /\ lines[j].kind = "header"
                           /\ ValidHeader(lines[j].parts)
                           /\ Trim(Part(lines[j].parts, 1)) = hash }

\* The file-change lines that follow line j before the next line with "|".
RunAfter(j) ==
    { k \in DOMAIN lines : /\ k > j
                           /\ \A m \in (j + 1)..k : lines[m].kind = "numstat" }

\* C24: a line with "|" that lacks a required field emits no commit, and the
\* file-change lines between it and the next valid header are added to no
\* commit: a returned commit holds no more files, and counts no more files,
\* than the lines that follow its own header before the next line with "|".
C24_InvalidHeaderDropsLines ==
    pc = "done" =>
        \A i \in DOMAIN commits :
            \E j \in HeadersOf(commits[i].hash) :
                /\ Len(heap[commits[i].files]) <= Cardinality(RunAfter(j))
                /\ commits[i].filesChanged <= Cardinality(RunAfter(j))

\* The file-change lines of this path whose two counts are numbers.
NumericLinesOf(path) ==
    { k \in DOMAIN lines : /\ lines[k].kind = "numstat"
                           /\ Part(lines[k].parts, 3) = path
                           /\ ParseInt(Part(lines[k].parts, 1)) # <<>>
                           /\ ParseInt(Part(lines[k].parts, 2)) # <<>> }

\* C25: a file-change line whose insertion or deletion count is not a number
\* is skipped: every file of a returned commit comes from a line with two
\* numeric counts.
C25_NonNumericSkipped ==
    pc = "done" =>
        \A i \in DOMAIN commits :
            \A k \in DOMAIN heap[commits[i].files] :
                NumericLinesOf(heap[commits[i].files][k].path) # {}

\* What one ref descriptor contributes: X for "HEAD -> X", nothing for a tag
\* and for the bare HEAD, its own name otherwise; names are taken without the
\* remote prefix the parser removes.
ExpectedOfRef(ref) ==
    IF Len(ref) >= 2 /\ ref[1] = "HEAD" /\ ref[2] = " -> "
    THEN { StripRemote(SubSeq(ref, 3, Len(ref))) }
    ELSE IF ref = <<>> \/ ref[1] = "tag: " \/ ref = <<"HEAD">>
         THEN {}
         ELSE { StripRemote(ref) }

ExpectedOfRefs(refs) ==
    UNION { ExpectedOfRef(SplitRefs(refs)[k]) : k \in DOMAIN SplitRefs(refs) }

\* C26: the decoration-derived branches of a commit are exactly, without
\* duplicates, X for each descriptor "HEAD -> X" and the name of each
\* descriptor that is no tag and is not equal to "HEAD"; a branch whose name
\* only begins with "HEAD" is kept.
C26_DecorationBranches ==
    pc \in {"resolve", "done"} =>
        \A i \in DOMAIN parsed :
            /\ NoDuplicates(parsed[i].branches)
            /\ ToSet(parsed[i].branches)
                   = ExpectedOfRefs(Trim(Part(HeaderOf(parsed[i].hash).parts, 6)))

\* The names of the lines of a query output, cleaned, without the empty ones
\* and the ones the pass leaves out.
CleanedNames(output) ==
    { b \in { CleanBranch(output[k]) : k \in DOMAIN output } :
        b # <<>> /\ b[1] # "HEAD" }

RECURSIVE ValidHeaderHashes(_)
ValidHeaderHashes(i) ==
    IF i > Len(lines) THEN <<>>
    ELSE (IF SyntacticallyValidHeader(lines[i])
          THEN << Trim(Part(lines[i].parts, 1)) >> ELSE <<>>)
         \o ValidHeaderHashes(i + 1)

\* C29: the hashes of the returned commits are the hashes of the valid
\* headers of the log text, in the order of the text.
C29_SourceOrder ==
    pc = "done" =>
        [i \in DOMAIN commits |-> commits[i].hash] = ValidHeaderHashes(1)

\* C30: a step of the branch pass changes the branches of commits only: the
\* number and the order of the commits, every other field of every commit and
\* the files they refer to are left as they are, at every point of the pass.
C30_PassChangesBranchesOnly ==
    [][pc = "resolve" =>
          /\ Len(commits') = Len(commits)
          /\ \A i \in DOMAIN commits :
                 [commits'[i] EXCEPT !.branches = commits[i].branches] = commits[i]
          /\ heap' = heap
          /\ parsed' = parsed]_vars

\* The pass is over; it gave branches to a commit that has files and left a
\* commit with files as it was.
C30_Witness ==
    /\ pc = "done"
    /\ Len(commits) >= 2
    /\ \E i \in DOMAIN commits :
           /\ commits[i].branches # parsed[i].branches
           /\ commits[i].filesChanged > 0
           /\ heap[commits[i].files] # <<>>
    /\ \A i \in DOMAIN commits :
           [commits[i] EXCEPT !.branches = parsed[i].branches] = parsed[i]

----------------------------------------------------------------------------
(* Claims about the alias map. *)

\* The lines of .mailmap that are no blank line and no comment and hold at
\* least two <...> tokens.
RuleLines ==
    { l \in DOMAIN mailmapContent :
        mailmapContent[l].kind = "rule" /\ Len(mailmapContent[l].emails) >= 2 }

\* C27 as stated: for each such line the map sends every token after the
\* first, lowercased, to the first token, lowercased, and it holds no other
\* entry.
C27_AliasMapOfEveryLine ==
    (useMailmap /\ mailmapReadable /\ cpc # "start") =>
        /\ \A l \in RuleLines : \A k \in 2..Len(mailmapContent[l].emails) :
               LET emails == mailmapContent[l].emails
               IN /\ ToLowerCase(emails[k]) \in DOMAIN emailMapping
                  /\ emailMapping[ToLowerCase(emails[k])] = ToLowerCase(emails[1])
        /\ DOMAIN emailMapping =
               UNION { { ToLowerCase(mailmapContent[l].emails[k]) :
                           k \in 2..Len(mailmapContent[l].emails) } : l \in RuleLines }

\* The rule lines whose first token holds an email and that hold key,
\* lowercased, as a later token.
DeclaringLines(key) ==
    { l \in RuleLines :
        /\ mailmapContent[l].emails[1] # ""
        /\ \E k \in 2..Len(mailmapContent[l].emails) :
               /\ mailmapContent[l].emails[k] # ""
               /\ ToLowerCase(mailmapContent[l].emails[k]) = key }

LastOf(S) == CHOOSE l \in S : \A m \in S : m <= l

\* The tokens, lowercased, that some line of the file holds.
TokensOfFile ==
    UNION { { ToLowerCase(mailmapContent[l].emails[k]) :
                k \in DOMAIN mailmapContent[l].emails } : l \in DOMAIN mailmapContent }

\* C27 as amended: the keys of the map are the lowercased non-empty tokens
\* that follow a non-empty first token on a line with at least two tokens,
\* and each key is sent to the lowercased first token of the last such line
\* that holds it; blank lines, comments and lines with fewer than two tokens
\* add nothing.
C27_AliasMapLastRuleWins ==
    (useMailmap /\ mailmapReadable /\ cpc # "start") =>
        /\ DOMAIN emailMapping = { key \in TokensOfFile : DeclaringLines(key) # {} }
        /\ \A key \in DOMAIN emailMapping :
               emailMapping[key]
                   = ToLowerCase(mailmapContent[LastOf(DeclaringLines(key))].emails[1])

\* The file was parsed; two of its lines alias the same email to different
\* canonical emails.
C27_Witness ==
    /\ useMailmap
    /\ mailmapReadable
    /\ cpc = "done"
    /\ \E key \in DOMAIN emailMapping :
           /\ Cardinality(DeclaringLines(key)) = 2
           /\ \E l \in DeclaringLines(key) :
                  ToLowerCase(mailmapContent[l].emails[1]) # emailMapping[key]

----------------------------------------------------------------------------
(* Claims about the unique-emails output of the contributors command. *)

\* The entries whose case-folded email is that of u.
EmailGroup(u) ==
    { k \in DOMAIN entries : ToLowerCase(entries[k].email) = ToLowerCase(u.email) }

RECURSIVE SumOfEntries(_)
SumOfEntries(group) ==
    IF group = {} THEN 0
    ELSE LET k == CHOOSE x \in group : TRUE
         IN entries[k].commits + SumOfEntries(group \ {k})

\* C21: deduplication by email across several repositories' contributor
\* lists merges the entries with the same case-folded email into one entry
\* whose commits is the sum of the merged entries' commits and whose name is
\* that of an entry with the largest individual commits; the total over the
\* deduplicated list equals the total over all input lists, and the list is
\* sorted by commits descending.
C21_DedupByEmail ==
    dedupPc = "done" =>
        /\ \A i, j \in DOMAIN uniqueContributors :
               i # j => ToLowerCase(uniqueContributors[i].email)
                            # ToLowerCase(uniqueContributors[j].email)
        /\ \A k \in DOMAIN entries :
               \E i \in DOMAIN uniqueContributors : k \in EmailGroup(uniqueContributors[i])
        /\ \A i \in DOMAIN uniqueContributors :
               LET u == uniqueContributors[i]
                   group == EmailGroup(u)
               IN /\ group # {}
                  /\ u.commits = SumOfEntries(group)
                  /\ \E k \in group :
                         /\ \A l \in group : entries[k].commits >= entries[l].commits
                         /\ u.name = entries[k].name
        /\ SumCommits(uniqueContributors) = SumCommits(entries)
        /\ \A i \in 1..(Len(uniqueContributors) - 1) :
               uniqueContributors[i].commits >= uniqueContributors[i + 1].commits

\* Three entries share one case-folded email under two spellings; the last
\* one has the largest individual commits and another name than the first.
C21_Witness ==
    /\ dedupPc = "done"
    /\ Len(entries) = 3
    /\ Len(uniqueContributors) = 1
    /\ entries[1].email # entries[2].email
    /\ entries[3].commits > entries[1].commits
    /\ entries[3].commits > entries[2].commits
    /\ entries[3].name # entries[1].name
    /\ uniqueContributors[1].name = entries[3].name
    /\ uniqueContributors[1].commits > MaxCount

----------------------------------------------------------------------------
(* Claims about findConfigFile. *)

\* The nearest directory, among the start directory and its ancestors, that
\* holds a config file.
NearestConfig ==
    IF configDirs = {} THEN <<>>
    ELSE <<CHOOSE d \in configDirs : \A e \in configDirs : e <= d>>

\* C22: findConfigFile returns the .gstatxrc.json of the nearest directory,
\* among the start directory and all of its ancestors up to the filesystem
\* root, that contains one, and null only when none of them contains one, at
\* any nesting depth of the start directory.
C22_NearestConfigFound ==
    configPc = "returned" => found = NearestConfig

----------------------------------------------------------------------------
(* Claims about ensureRepository. *)

CloneRan == \E i \in DOMAIN commandsRun : commandsRun[i].cmd = "clone"

CloneSucceeded ==
    \E i \in DOMAIN commandsRun : commandsRun[i].cmd = "clone" /\ commandsRun[i].ok

\* C23: ensureRepository never throws and follows its decision table: a path
\* that already is a git repository is returned without cloning, also when
\* updating it fails; a path that exists but is not a git repository yields
\* null without cloning; a missing path with no url yields null without
\* cloning; a missing path with a url is cloned, returning the path when the
\* clone succeeds and null when it fails.
C23_DecisionTable ==
    ensurePc = "returned" =>
        /\ ensured \in {"path", "null"}
        /\ repo.path = "gitRepo" => ensured = "path" /\ ~CloneRan
        /\ repo.path = "dir" => ensured = "null" /\ ~CloneRan
        /\ repo.path = "missing" /\ ~repo.url => ensured = "null" /\ ~CloneRan
        /\ repo.path = "missing" /\ repo.url =>
               /\ CloneRan
               /\ ensured = IF CloneSucceeded THEN "path" ELSE "null"

\* The repository exists, fetching succeeded, pulling failed, and the path is
\* returned all the same.
C23_Witness ==
    /\ ensurePc = "returned"
    /\ repo.path = "gitRepo"
    /\ Len(commandsRun) = 2
    /\ commandsRun[1].ok
    /\ ~commandsRun[2].ok
    /\ ensured = "path"

====
